---- MODULE Spec2Model ----
(***************************************************************************)
(* Model of src/main.py: the LeetCode bulk profile analyzer.               *)
(*                                                                         *)
(*   extract_username_from_url   the identifier resolver (two regexes)     *)
(*   get_leetcode_stats          one POST to the remote GraphQL endpoint   *)
(*   fetch_leetcode_stats        maps the matched user to a stat record    *)
(*   process_leaderboard         the batch loop, the sort and the index    *)
(*   api_leaderboard             serialises the frame with to_dict         *)
(*                                                                         *)
(* Text that the code parses (profile references, usernames) is a sequence *)
(* of one-character strings.  Python values whose type varies (None, int,  *)
(* str) are tagged records, see NoneV, IntV, StrV.                         *)
(***************************************************************************)
EXTENDS Integers, Sequences, FiniteSets, TLC

VARIABLES
    df,             \* the "profile_url" column: a sequence of references
    pc,             \* position of the running handler
    idx,            \* position of the for loop of process_leaderboard in df
    url,            \* the loop variable url / the text input profile_url
    username,       \* result of extract_username_from_url(url)
    sent,           \* the remote endpoint's log: one entry per POST received
    leaderboard,    \* the list leaderboard of process_leaderboard
    leaderboard_df, \* the sorted frame: its index and its rows
    content         \* the content handed to JSONResponse

vars == <<df, pc, idx, url, username, sent, leaderboard, leaderboard_df, content>>

----------------------------------------------------------------------------
(* Bounds of the model *)

MaxBatch == 3

----------------------------------------------------------------------------
(* Python values *)

NoneV == [t |-> "none", n |-> 0, s |-> ""]
IntV(n) == [t |-> "int", n |-> n, s |-> ""]
StrV(s) == [t |-> "str", n |-> 0, s |-> s]

\* Optional[str] as returned by extract_username_from_url
None == [some |-> FALSE, val |-> <<>>]
Some(v) == [some |-> TRUE, val |-> v]

----------------------------------------------------------------------------
(* Text *)

HTTPS == <<"h", "t", "t", "p", "s", ":", "/", "/">>
LEETCODE_COM == <<"l", "e", "e", "t", "c", "o", "d", "e", ".", "c", "o", "m">>
EXAMPLE_COM == <<"e", "x", "a", "m", "p", "l", "e", ".", "c", "o", "m">>
ALICE == <<"a", "l", "i", "c", "e">>
BOB == <<"b", "o", "b">>
NOT_A_URL == <<"n", "o", "t", "-", "a", "-", "u", "r", "l">>
SLASH == <<"/">>

\* the characters str.strip() removes and \s matches
Whitespace == {" ", "\t", "\n"}

RECURSIVE lstrip(_, _)
lstrip(s, chars) ==
    IF s # <<>> /\ Head(s) \in chars THEN lstrip(Tail(s), chars) ELSE s

RECURSIVE rstrip(_, _)
rstrip(s, chars) ==
    IF s # <<>> /\ s[Len(s)] \in chars
    THEN rstrip(SubSeq(s, 1, Len(s) - 1), chars)
    ELSE s

strip(s) == rstrip(lstrip(s, Whitespace), Whitespace)

----------------------------------------------------------------------------
(* extract_username_from_url *)

\* [^/\s]
IsSegmentChar(c) == c # "/" /\ c \notin Whitespace

\* s has the literal text lit at position i
LiteralAt(s, lit, i) ==
    /\ i + Len(lit) - 1 <= Len(s)
    /\ SubSeq(s, i, i + Len(lit) - 1) = lit

\* the last position of the greedy run [^/\s]+ that starts at j (j - 1: no run)
RECURSIVE RunEnd(_, _)
RunEnd(s, j) ==
    IF j <= Len(s) /\ IsSegmentChar(s[j]) THEN RunEnd(s, j + 1) ELSE j - 1

\* /?$ : an optional slash, then the end of the text or a newline that ends it
AtOptionalSlashEnd(rest) ==
    rest \in {<<>>, <<"/">>, <<"\n">>, <<"/", "\n">>}

\* The two patterns of the code, as the literal text before the group and
\* whether /?$ follows the group.
patternsSwapped ==
    << [literal |-> LEETCODE_COM \o SLASH, anchored |-> TRUE],
       [literal |-> LEETCODE_COM \o <<"/", "u", "/">>, anchored |-> FALSE] >>

patterns ==
    << [literal |-> LEETCODE_COM \o <<"/", "u", "/">>, anchored |-> FALSE],
       [literal |-> LEETCODE_COM \o SLASH, anchored |-> TRUE] >>

\* the pattern matches s with its literal starting at position i
MatchAt(pattern, s, i) ==
    LET j == i + Len(pattern.literal)
        k == RunEnd(s, j)
    IN  /\ LiteralAt(s, pattern.literal, i)
        /\ k >= j
        /\ pattern.anchored => AtOptionalSlashEnd(SubSeq(s, k + 1, Len(s)))

\* re.search(pattern, s), then match.group(1): the leftmost match
re_search(pattern, s) ==
    LET starts == {i \in 1..Len(s) : MatchAt(pattern, s, i)}
    IN  IF starts = {} THEN None
        ELSE LET i == CHOOSE x \in starts : \A y \in starts : x <= y
                 j == i + Len(pattern.literal)
             IN  Some(SubSeq(s, j, RunEnd(s, j)))

RECURSIVE FirstMatch(_, _)
FirstMatch(ps, s) ==
    IF ps = <<>> THEN None
    ELSE LET m == re_search(Head(ps), s)
         IN  IF m.some THEN m ELSE FirstMatch(Tail(ps), s)

extract_username_from_url(u) ==
    FirstMatch(patterns, rstrip(strip(u), {"/"}))

----------------------------------------------------------------------------
(* The remote endpoint.  A response is what requests.post yields: an         *)
(* exception of the transport, or a status code with a body that is JSON or  *)
(* not; the JSON body has "data", and data has "matchedUser".                *)

ConnectionFailed == [raises |-> TRUE, status_code |-> 0, is_json |-> FALSE, body |-> NoneV]
Reply(code, is_json, body) ==
    [raises |-> FALSE, status_code |-> code, is_json |-> is_json, body |-> body]

Bucket(d, c) == [difficulty |-> d, count |-> c]

\* The matched users the endpoint may answer with, for the account u.
MatchedUsers(u) ==
    { \* every bucket, a name and a numeric ranking
      [username |-> u,
       submitStats |-> [acSubmissionNum |->
           <<Bucket("All", 2), Bucket("Easy", 1), Bucket("Medium", 1), Bucket("Hard", 0)>>],
       profile |-> [realName |-> StrV("Real Name"), ranking |-> IntV(7)]],
      \* no "Hard" bucket, and "ranking": null
      [username |-> u,
       submitStats |-> [acSubmissionNum |->
           <<Bucket("All", 1), Bucket("Easy", 1), Bucket("Medium", 0)>>],
       profile |-> [realName |-> NoneV, ranking |-> NoneV]],
      \* a ranking that is not a number
      [username |-> u,
       submitStats |-> [acSubmissionNum |->
           <<Bucket("Easy", 0), Bucket("Hard", 1), Bucket("All", 1), Bucket("Medium", 0)>>],
       profile |-> [realName |-> StrV("Real Name"), ranking |-> StrV("unranked")]],
      \* no submitStats, a profile without realName and ranking
      [username |-> u, profile |-> [location |-> StrV("Earth")]],
      \* "profile": null
      [username |-> u,
       submitStats |-> [acSubmissionNum |-> <<Bucket("All", 2)>>],
       profile |-> NoneV] }

\* What the endpoint may answer to a POST whose variables carry username.
\* $username is declared String!, so a null username matches no user.
Responses(name) ==
    { ConnectionFailed,
      Reply(500, FALSE, NoneV),
      Reply(200, FALSE, NoneV),
      Reply(200, TRUE, [data |-> [matchedUser |-> NoneV]]) }
    \cup (IF name.some
          THEN {Reply(200, TRUE, [data |-> [matchedUser |-> m]]) : m \in MatchedUsers(name.val)}
          ELSE {Reply(200, TRUE, [data |-> NoneV])})

----------------------------------------------------------------------------
(* The client: get_leetcode_stats and fetch_leetcode_stats, from the reply on *)

\* the result of a call: a value returned or an exception raised, with str(e)
Return(v) == [ok |-> TRUE, exc |-> "", val |-> v]
Raise(msg) == [ok |-> FALSE, exc |-> msg, val |-> NoneV]

USER_NOT_FOUND == "User not found or profile is private"
CONNECTION_ERROR == "HTTPSConnectionPool(host='leetcode.com', port=443): Max retries exceeded"
JSON_DECODE_ERROR == "Expecting value: line 1 column 1 (char 0)"
ATTRIBUTE_ERROR == "'NoneType' object has no attribute 'get'"

\* dict.get(key, default)
EmptyDict == [k \in {} |-> NoneV]
Get(d, k, default) == IF k \in DOMAIN d THEN d[k] ELSE default

\* lines 72-81, once requests.post has come back with resp
get_leetcode_stats(resp) ==
    IF resp.raises THEN Raise(CONNECTION_ERROR)
    ELSE IF resp.status_code = 200
    THEN IF ~resp.is_json THEN Raise(JSON_DECODE_ERROR)
         ELSE LET data == resp.body
              IN  IF Get(data, "data", NoneV) # NoneV
                     /\ Get(data["data"], "matchedUser", NoneV) # NoneV
                  THEN Return(data["data"]["matchedUser"])
                  ELSE Return(NoneV)
    ELSE Return(NoneV)

\* next((s['count'] for s in stats if s['difficulty'] == label), 0)
RECURSIVE NextCount(_, _)
NextCount(stats, label) ==
    IF stats = <<>> THEN 0
    ELSE IF Head(stats).difficulty = label THEN Head(stats).count
    ELSE NextCount(Tail(stats), label)

StatRecord(name, real, total, easy, medium, hard, rank) ==
    ("Username" :> name) @@ ("Real Name" :> real) @@ ("Total Solved" :> total)
    @@ ("Easy" :> easy) @@ ("Medium" :> medium) @@ ("Hard" :> hard)
    @@ ("Worldwide Rank" :> rank)

\* user.get('profile', {}).get('ranking', 'N/A')
Ranking(profile) == Get(profile, "ranking", StrV("N/A"))

\* lines 83-96
fetch_leetcode_stats(resp) ==
    LET got == get_leetcode_stats(resp)
    IN  IF ~got.ok THEN got
        ELSE IF got.val = NoneV THEN Raise(USER_NOT_FOUND)
        ELSE LET user == got.val
                 submitStats == Get(user, "submitStats", EmptyDict)
                 profile == Get(user, "profile", EmptyDict)
             IN  IF submitStats = NoneV \/ profile = NoneV
                 THEN Raise(ATTRIBUTE_ERROR)
                 ELSE LET stats == Get(submitStats, "acSubmissionNum", <<>>)
                      IN  Return(StatRecord(
                              Get(user, "username", <<>>),
                              Get(profile, "realName", StrV("N/A")),
                              NextCount(stats, "All"),
                              NextCount(stats, "Easy"),
                              NextCount(stats, "Medium"),
                              NextCount(stats, "Hard"),
                              Ranking(profile)))

----------------------------------------------------------------------------
(* process_leaderboard and api_leaderboard *)

\* the references a batch is drawn from: a profile URL with a trailing slash
\* and a text that is no URL
BatchRefs ==
    { HTTPS \o LEETCODE_COM \o <<"/", "u", "/">> \o ALICE \o SLASH,
      NOT_A_URL }

Batches == UNION {[1..n -> BatchRefs] : n \in 0..MaxBatch}

EmptyFrame == [index |-> <<>>, rows |-> <<>>]

\* lines 105-114: the record appended by the except branch, e is str(e)
ErrorRecord(e) ==
    StatRecord(<<"E", "r", "r", "o", "r">>, StrV("N/A"), 0, 0, 0, 0, StrV(e))

\* the except branch with its append lost
except_branch_drops(lb, e) == lb

\* the except branch appending the stats left over from the item before
except_branch_stale(lb, e) ==
    IF lb = <<>> THEN Append(lb, ErrorRecord(e)) ELSE Append(lb, lb[Len(lb)])

except_branch(lb, e) == Append(lb, ErrorRecord(e))

\* The orders sort_values(by="Total Solved", ascending=False) may leave the
\* rows in.  The call takes the default kind="quicksort", which pandas
\* documents as not stable: rows of equal total may come out in any order.
sort_values(lb) ==
    { p \in Permutations(1..Len(lb)) :
        \A k \in 1..(Len(lb) - 1) :
            lb[p[k]]["Total Solved"] >= lb[p[k + 1]]["Total Solved"] }

\* to_dict(orient="records"): one dict per row, keyed by the columns; the
\* index is not part of it
to_dict(frame) == frame.rows

Init ==
    /\ df \in Batches
    /\ pc = "loop"
    /\ idx = 1
    /\ url = <<>>
    /\ username = None
    /\ sent = <<>>
    /\ leaderboard = <<>>
    /\ leaderboard_df = EmptyFrame
    /\ content = <<>>

\* lines 100-103, 84, 66-76: the next url is resolved and the POST goes out,
\* with whatever extract_username_from_url returned as $username
PostRequest ==
    /\ pc = "loop"
    /\ idx <= Len(df)
    /\ url' = df[idx]
    /\ username' = extract_username_from_url(df[idx])
    /\ sent' = Append(sent, [item |-> idx, username |-> username',
                             answered |-> FALSE, response |-> NoneV])
    /\ pc' = "post"
    /\ UNCHANGED <<df, idx, leaderboard, leaderboard_df, content>>

\* lines 77-96, 104: the endpoint answers and the stats are appended
AppendStats ==
    /\ pc = "post"
    /\ \E r \in Responses(username) :
          /\ fetch_leetcode_stats(r).ok
          /\ leaderboard' = Append(leaderboard, fetch_leetcode_stats(r).val)
          /\ sent' = [sent EXCEPT ![Len(sent)].answered = TRUE,
                                  ![Len(sent)].response = r]
    /\ idx' = idx + 1
    /\ pc' = "loop"
    /\ UNCHANGED <<df, url, username, leaderboard_df, content>>

\* lines 72-86, 105-114: the POST, response.json() or fetch_leetcode_stats
\* raises and the except branch appends the error record
HandleException ==
    /\ pc = "post"
    /\ \E r \in Responses(username) :
          /\ ~fetch_leetcode_stats(r).ok
          /\ leaderboard' = except_branch(leaderboard, fetch_leetcode_stats(r).exc)
          /\ sent' = [sent EXCEPT ![Len(sent)].answered = TRUE,
                                  ![Len(sent)].response = r]
    /\ idx' = idx + 1
    /\ pc' = "loop"
    /\ UNCHANGED <<df, url, username, leaderboard_df, content>>

\* lines 72-76: requests.post is given no timeout; an endpoint that accepts
\* the connection and never answers leaves the call waiting
NeverAnswered ==
    /\ pc = "post"
    /\ pc' = "blocked"
    /\ UNCHANGED <<df, idx, url, username, sent, leaderboard, leaderboard_df, content>>

\* lines 115-118 and 132-133, for a leaderboard with rows: the frame is
\* sorted, indexed from 1, returned and serialised
ReturnLeaderboard ==
    /\ pc = "loop"
    /\ idx > Len(df)
    /\ leaderboard # <<>>
    /\ \E p \in sort_values(leaderboard) :
          leaderboard_df' =
              [index |-> [k \in 1..Len(leaderboard) |-> k],
               rows |-> [k \in 1..Len(leaderboard) |-> leaderboard[p[k]]]]
    /\ content' = to_dict(leaderboard_df')
    /\ pc' = "responded"
    /\ UNCHANGED <<df, idx, url, username, sent, leaderboard>>

\* lines 115-116, for no rows: the frame has no column "Total Solved" and
\* sort_values raises KeyError
SortRaises ==
    /\ pc = "loop"
    /\ idx > Len(df)
    /\ leaderboard = <<>>
    /\ pc' = "raised"
    /\ UNCHANGED <<df, idx, url, username, sent, leaderboard, leaderboard_df, content>>

\* lines 134-135
BadRequest ==
    /\ pc = "raised"
    /\ pc' = "http400"
    /\ UNCHANGED <<df, idx, url, username, sent, leaderboard, leaderboard_df, content>>

Next ==
    \/ PostRequest
    \/ AppendStats
    \/ HandleException
    \/ NeverAnswered
    \/ ReturnLeaderboard
    \/ SortRaises
    \/ BadRequest

Spec == Init /\ [][Next]_vars

----------------------------------------------------------------------------
(* The single-profile view of run_streamlit: the resolver on one text input *)

Leads == {<<>>, <<" ">>}
Schemes == {HTTPS, <<>>}
Hosts == {LEETCODE_COM, EXAMPLE_COM}
Paths ==
    { <<>>,
      <<"/", "u">>,
      <<"/", "u", "/">> \o ALICE,
      SLASH \o ALICE,
      <<"/", "u", "/">> \o ALICE \o SLASH \o BOB,
      SLASH \o ALICE \o SLASH \o BOB,
      <<"/", "u", "/">> \o ALICE \o SLASH \o LEETCODE_COM \o SLASH \o BOB,
      SLASH \o ALICE \o SLASH \o LEETCODE_COM \o <<"/", "u", "/">> \o BOB,
      <<"/", "u", "/">> \o BOB \o SLASH \o LEETCODE_COM \o <<"/", "u", "/">> \o ALICE }
Trails == {<<>>, <<"/">>, <<"/", "/">>, <<" ">>, <<"/", "\t">>, <<"\n", "/">>}

References ==
    { l \o s \o h \o p \o t :
        l \in Leads, s \in Schemes, h \in Hosts, p \in Paths, t \in Trails }

ResolverInit ==
    /\ url \in References
    /\ pc = "input"
    /\ df = <<>>
    /\ idx = 1
    /\ username = None
    /\ sent = <<>>
    /\ leaderboard = <<>>
    /\ leaderboard_df = EmptyFrame
    /\ content = <<>>

\* lines 172-178, 183-184: the button; an identifier is resolved and the POST
\* goes out, or the URL is reported invalid
GetStats ==
    /\ pc = "input"
    /\ username' = extract_username_from_url(url)
    /\ IF username'.some
       THEN /\ sent' = Append(sent, [item |-> 0, username |-> username',
                                     answered |-> FALSE, response |-> NoneV])
            /\ pc' = "fetching"
       ELSE /\ sent' = sent
            /\ pc' = "invalid"
    /\ UNCHANGED <<df, idx, url, leaderboard, leaderboard_df, content>>

\* lines 178-182: the answer is displayed, reported as not fetched, or the
\* exception of the call leaves the handler
ShowProfile ==
    /\ pc = "fetching"
    /\ \E r \in Responses(username) :
          /\ sent' = [sent EXCEPT ![Len(sent)].answered = TRUE,
                                  ![Len(sent)].response = r]
          /\ pc' = IF ~get_leetcode_stats(r).ok THEN "exception"
                   ELSE IF get_leetcode_stats(r).val # NoneV THEN "displayed"
                   ELSE "could_not_fetch"
    /\ UNCHANGED <<df, idx, url, username, leaderboard, leaderboard_df, content>>

ResolverNext ==
    \/ GetStats
    \/ ShowProfile

ResolverSpec == ResolverInit /\ [][ResolverNext]_vars

----------------------------------------------------------------------------
(* Vocabulary of the properties *)

Columns ==
    {"Username", "Real Name", "Total Solved", "Easy", "Medium", "Hard", "Worldwide Rank"}

Returned == pc = "responded"

\* extract_username_from_url on the references of a batch
Resolves == [ref \in BatchRefs |-> extract_username_from_url(ref)]

ERROR_NAME == <<"E", "r", "r", "o", "r">>
IsFailure(rec) == rec["Username"] = ERROR_NAME /\ rec["Worldwide Rank"].t = "str"
Reason(rec) == rec["Worldwide Rank"].s

\* kinds of answer, read off the response itself
IsTransportFailure(r) == r.raises \/ r.status_code # 200
IsNoAccount(r) ==
    /\ ~r.raises /\ r.status_code = 200 /\ r.is_json
    /\ \/ r.body["data"] = NoneV
       \/ r.body["data"]["matchedUser"] = NoneV
IsMatched(r) ==
    /\ ~r.raises /\ r.status_code = 200 /\ r.is_json
    /\ r.body["data"] # NoneV
    /\ r.body["data"]["matchedUser"] # NoneV
Matched(r) == r.body["data"]["matchedUser"]
\* a matched user whose profile and submitStats are not null
IsWellFormed(r) ==
    /\ IsMatched(r)
    /\ Get(Matched(r), "profile", EmptyDict) # NoneV
    /\ Get(Matched(r), "submitStats", EmptyDict) # NoneV

\* the one order that is descending by total and keeps ties in input order
StableOrder(lb) ==
    CHOOSE p \in Permutations(1..Len(lb)) :
        \A k, l \in 1..Len(lb) :
            k < l =>
                \/ lb[p[k]]["Total Solved"] > lb[p[l]]["Total Solved"]
                \/ /\ lb[p[k]]["Total Solved"] = lb[p[l]]["Total Solved"]
                   /\ p[k] < p[l]

----------------------------------------------------------------------------
(* C1: a non-empty batch never makes process_leaderboard raise; while the   *)
(* loop runs the list holds one record per reference consumed, in input     *)
(* order (the record at position i answers the request made for df[i], and  *)
(* is a failure exactly when that request yielded no well-formed user);     *)
(* once returned, the list, the frame and the content have Len(df) records. *)
C1_OneRecordPerReference ==
    /\ df # <<>> => pc \notin {"raised", "http400"}
    /\ pc \in {"loop", "post", "blocked", "responded"} =>
          /\ Len(leaderboard) = idx - 1
          /\ \A i \in 1..Len(leaderboard) :
                /\ sent[i].item = i
                /\ sent[i].answered
                /\ sent[i].username = Resolves[df[i]]
                /\ IsFailure(leaderboard[i]) <=> ~IsWellFormed(sent[i].response)
                /\ ~IsFailure(leaderboard[i]) =>
                      Some(leaderboard[i]["Username"]) = Resolves[df[i]]
    /\ Returned =>
          /\ Len(leaderboard) = Len(df)
          /\ Len(leaderboard_df.rows) = Len(df)
          /\ Len(content) = Len(df)

\* a returned batch of three: an unresolvable reference, a connection error
\* and a success
C1_Witness ==
    /\ Returned
    /\ Len(df) = 3
    /\ ~sent[1].username.some
    /\ sent[2].response = ConnectionFailed
    /\ IsWellFormed(sent[3].response)
    /\ Len(leaderboard_df.rows) = 3

(* C7: the record of item i is determined by item i's reference and the     *)
(* answer to its own request: two items with the same reference and the     *)
(* same answer have the same record whatever was processed before them; a   *)
(* well-formed answer gives a success record with that user's name and "All"*)
(* count; and with three references of which the 2nd meets a connection     *)
(* error, three records are returned and the 1st and 3rd are successes.     *)
C7_Isolation ==
    /\ \A i, j \in 1..Len(leaderboard) :
          (df[i] = df[j] /\ sent[i].response = sent[j].response)
              => leaderboard[i] = leaderboard[j]
    /\ \A i \in 1..Len(leaderboard) :
          IsWellFormed(sent[i].response) =>
              /\ leaderboard[i]["Username"] = Matched(sent[i].response).username
              /\ leaderboard[i]["Total Solved"] =
                    NextCount(Get(Get(Matched(sent[i].response), "submitStats", EmptyDict),
                                  "acSubmissionNum", <<>>), "All")
    /\ (/\ Returned
        /\ Len(df) = 3
        /\ sent[2].response = ConnectionFailed
        /\ IsWellFormed(sent[1].response)
        /\ IsWellFormed(sent[3].response))
       => /\ Len(leaderboard) = 3
          /\ ~IsFailure(leaderboard[1])
          /\ IsFailure(leaderboard[2])
          /\ ~IsFailure(leaderboard[3])

\* the same reference met twice with a connection error, a success between
C7_Witness ==
    /\ Returned
    /\ Len(df) = 3
    /\ df[1] = df[3]
    /\ IsWellFormed(sent[1].response)
    /\ sent[2].response = ConnectionFailed
    /\ IsWellFormed(sent[3].response)
    /\ leaderboard[1]["Total Solved"] = 2
    /\ leaderboard[3]["Total Solved"] = 1

(* C2: the returned frame is ordered by Total Solved descending with rows   *)
(* of equal total in their collection order, and its index is 1..N.         *)
C2_StableDenseRanking ==
    Returned =>
        /\ leaderboard_df.rows =
              [k \in 1..Len(leaderboard) |-> leaderboard[StableOrder(leaderboard)[k]]]
        /\ leaderboard_df.index = [k \in 1..Len(leaderboard) |-> k]

(* C3: no request reaches the endpoint for a reference that resolves to no  *)
(* identifier, and the record of such a reference carries the reason        *)
(* "invalid reference - no identifier could be extracted".                  *)
C3_UnresolvedSkipsRemote ==
    /\ \A k \in 1..Len(sent) :
          sent[k].item # 0 => Resolves[df[sent[k].item]].some
    /\ \A i \in 1..Len(leaderboard) :
          ~Resolves[df[i]].some =>
              /\ IsFailure(leaderboard[i])
              /\ Reason(leaderboard[i]) =
                    "invalid reference - no identifier could be extracted"

(* C4: in a returned batch the failure record of an unresolvable reference  *)
(* and the failure record of a resolved reference with no matching account  *)
(* carry different reasons; and for one existing account, one missing       *)
(* account and one non-URL the result has 3 rows, the first the success.    *)
C4_DistinguishableReasons ==
    Returned =>
        /\ \A i, j \in 1..Len(leaderboard) :
              (/\ ~Resolves[df[i]].some
               /\ Resolves[df[j]].some
               /\ IsNoAccount(sent[j].response))
              => Reason(leaderboard[i]) # Reason(leaderboard[j])
        /\ (/\ Len(df) = 3
            /\ IsWellFormed(sent[1].response)
            /\ Resolves[df[2]].some
            /\ IsNoAccount(sent[2].response)
            /\ ~Resolves[df[3]].some)
           => /\ Len(leaderboard_df.rows) = 3
              /\ ~IsFailure(leaderboard_df.rows[1])

(* C5: every record of the content returned by api_leaderboard has, beside  *)
(* the seven columns, a rank field whose value is the record's 1-based      *)
(* position.                                                                *)
C5_ContentCarriesRank ==
    Returned =>
        \A k \in 1..Len(content) :
            /\ Columns \subseteq DOMAIN content[k]
            /\ \E key \in (DOMAIN content[k]) \ Columns : content[k][key] = k

(* C8: the client sends one request per call, and for calls made with an    *)
(* identifier a transport failure (connection error or non-200 status) and  *)
(* an answer with no matching account end the call with different reasons.  *)
C8_DistinguishedLookupErrors ==
    /\ Len(sent) <= Len(leaderboard) + 1
    /\ \A k, l \in 1..Len(leaderboard) :
          (/\ sent[k].username.some
           /\ sent[l].username.some
           /\ IsTransportFailure(sent[k].response)
           /\ IsNoAccount(sent[l].response))
          => Reason(leaderboard[k]) # Reason(leaderboard[l])

(* C9: the Worldwide Rank of a success record is the profile's ranking when *)
(* that is a number and the sentinel 'N/A' when it is absent, null or not a *)
(* number.                                                                  *)
C9_RankOrSentinel ==
    \A i \in 1..Len(leaderboard) :
        IsWellFormed(sent[i].response) =>
            LET ranking == Get(Get(Matched(sent[i].response), "profile", EmptyDict), "ranking", NoneV)
            IN  leaderboard[i]["Worldwide Rank"] =
                    IF ranking.t = "int" THEN ranking ELSE StrV("N/A")

(* C10: the batch always completes: in every state the handler has answered *)
(* (the content, or the 400 of an empty batch) or a further step is         *)
(* possible.                                                                *)
C10_BatchCompletes ==
    pc \in {"responded", "http400"} \/ ENABLED Next

----------------------------------------------------------------------------
(* C6 *)

Resolved == pc \in {"fetching", "invalid", "displayed", "could_not_fetch", "exception"}

\* the first place of s where lit is followed by a character of [^/\s]
FirstSegmentAfter(s, lit) ==
    LET at == {i \in 1..Len(s) :
                  /\ LiteralAt(s, lit, i)
                  /\ i + Len(lit) <= Len(s)
                  /\ IsSegmentChar(s[i + Len(lit)])}
    IN  IF at = {} THEN 0 ELSE CHOOSE i \in at : \A j \in at : i <= j

U_ALICE == <<"/", "u", "/">> \o ALICE

(* C6 as stated: the example.com references resolve (/u/alice and /alice to *)
(* "alice", the bare root to NotFound) and every reference containing       *)
(* '/u/alice/' resolves to "alice".                                         *)
C6_AsStated ==
    Resolved =>
        /\ url = HTTPS \o EXAMPLE_COM \o U_ALICE => username = Some(ALICE)
        /\ url = HTTPS \o EXAMPLE_COM \o SLASH \o ALICE => username = Some(ALICE)
        /\ url = HTTPS \o EXAMPLE_COM \o SLASH => username = None
        /\ (\E i \in 1..Len(url) : LiteralAt(url, U_ALICE \o SLASH, i))
              => username = Some(ALICE)

(* C6, amended: the patterns are tied to the host leetcode.com.             *)
(* "https://leetcode.com/u/alice" and "https://leetcode.com/alice" resolve  *)
(* to "alice", "https://leetcode.com/" to NotFound; a reference whose first *)
(* 'leetcode.com/u/<segment>' is 'leetcode.com/u/alice' followed by '/' or  *)
(* by the end resolves to "alice", also when the bare-root pattern matches  *)
(* another value; a reference without 'leetcode.com/' resolves to NotFound. *)
C6_ResolverOnLeetcodeHost ==
    Resolved =>
        /\ url = HTTPS \o LEETCODE_COM \o U_ALICE => username = Some(ALICE)
        /\ url = HTTPS \o LEETCODE_COM \o SLASH \o ALICE => username = Some(ALICE)
        /\ url = HTTPS \o LEETCODE_COM \o SLASH => username = None
        /\ LET trimmed == rstrip(strip(url), {"/"})
               first == FirstSegmentAfter(trimmed, LEETCODE_COM \o <<"/", "u", "/">>)
               after == first + Len(LEETCODE_COM \o U_ALICE)
           IN  (/\ first # 0
                /\ LiteralAt(trimmed, LEETCODE_COM \o U_ALICE, first)
                /\ after <= Len(trimmed) => trimmed[after] = "/")
               => username = Some(ALICE)
        /\ (\A i \in 1..Len(url) : ~LiteralAt(url, LEETCODE_COM \o SLASH, i))
              => username = None

\* both patterns match: the embedded segment is alice, the last segment bob
C6_Witness ==
    /\ Resolved
    /\ url = HTTPS \o LEETCODE_COM \o U_ALICE \o SLASH \o LEETCODE_COM \o SLASH \o BOB \o SLASH
    /\ username = Some(ALICE)
    /\ re_search(patterns[2], rstrip(strip(url), {"/"})) = Some(BOB)

====
